---- MODULE Spec2Model ----
(***************************************************************************)
(* ygate: a receive-only APRS igate (src/ygate.py).                        *)
(*                                                                         *)
(* The model follows the main loop of ygate.py: the three-state session    *)
(* machine (NOCONNECT, CONNECTED, LOGGED_IN), the telemetry and position   *)
(* timers, and the reframing and filtering of the routing and payload      *)
(* lines read from the radio.  Text is modelled character by character: a  *)
(* string is a sequence of one-character strings, so that substring tests  *)
(* and the two regular expressions are computed the way Python computes    *)
(* them.                                                                   *)
(***************************************************************************)
EXTENDS Integers, Sequences, FiniteSets, TLC

(***************************************************************************)
(* User and protocol constants, ygate.py lines 33-69.                      *)
(***************************************************************************)
USER ==
    <<"V","E","3","Y","S","H","-","9">>

PASS ==
    <<"1","7","8","4","6">>

LAT ==
    <<"4","4","4","8",".","7","2","N">>

LONG ==
    <<"0","7","5","5","9",".","1","5","W">>

PARAMETER_NAMES ==
    <<":","V","E","3","Y","S","H","-","9"," ",":","P","A","R","M",".","C","P",
      "U",",","L","o","a","d",",","T","e","m","p",",","R","H">>

UNIT_MESSAGE ==
    <<":","V","E","3","Y","S","H","-","9"," ",":","U","N","I","T",".","d","e",
      "g","C",",","%",",","d","e","g","C",",","%">>

EQUATION_COEF ==
    <<":","V","E","3","Y","S","H","-","9"," ",":","E","Q","N","S",".","0",",",
      "0",".","5",",","0",",","0",",","1",",","0",",","0",",","0",".","5",",",
      "-","5","0",",","0",",","0",".","5",",","0">>

ICON ==
    <<"&">>

OVERLAY ==
    <<"R">>

TO_CALL ==
    <<">","A","P","Z","Y","G","2">>

MESSAGE ==
    <<"Y","a","e","s","u"," ","y","g","a","t","e"," ","h","t","t","p","s",":",
      "/","/","g","i","t","h","u","b",".","c","o","m","/","c","r","a","i","g",
      "e","r","l","/","y","g","a","t","e">>

BEACON_INTERVAL_S == 1800

TELEMETRY_INTERVAL_S == 300

SEQUENCE_NUMBER_INIT == 10

SLEEP_S == 5

CRLF == <<"\r","\n">>

\* POSITION = LAT + OVERLAY + LONG
POSITION == LAT \o OVERLAY \o LONG

TcpipPath == <<",","T","C","P","I","P","*",":">>

\* PREFIX = USER + TO_CALL + ",TCPIP*:"
PREFIX == USER \o TO_CALL \o TcpipPath

\* MY_POSITION_STRING = USER + TO_CALL + ",TCPIP*:!" + POSITION + ICON + MESSAGE
MY_POSITION_STRING == USER \o TO_CALL \o TcpipPath \o <<"!">> \o POSITION \o ICON \o MESSAGE

\* MY_LOGIN_STRING = "user " + USER + " pass " + PASS + " vers ygate.py 2.00\n"
MY_LOGIN_STRING ==
    <<"u","s","e","r"," ">> \o USER \o <<" ","p","a","s","s"," ">> \o PASS
      \o <<" ","v","e","r","s"," ","y","g","a","t","e",".","p","y"," ","2",".","0","0","\n">>

(***************************************************************************)
(* Bounds of the model.                                                    *)
(***************************************************************************)
\* the wall clock is not read beyond MaxTime seconds after start
MaxTime == 1900

(***************************************************************************)
(* What the environment can deliver.  Lines as the serial port and the     *)
(* socket return them: raw, with their terminators.                        *)
(***************************************************************************)
LinePlain ==
    <<"A",">","B"," ","[","t","]"," ","<","U","I",">",":","\r","\n">>

LineNoSpace ==
    <<"A",">","B","[","t","]"," ","<","U","I",">",":","\r","\n">>

LineUiR ==
    <<"A",">","B"," ","[","t","]"," ","<","U","I"," ","R",">",":","\r","\n">>

LineTcp ==
    <<"A",">","B",",","T","C","P","I","P","*"," ","[","t","]"," ","<","U","I",
      ">",":","\r","\n">>

LineRfOnly ==
    <<"A",">","B",",","R","F","O","N","L","Y"," ","[","t","]"," ","<","U","I",
      ">",":","\r","\n">>

LineNoGate ==
    <<"A",">","B",",","N","O","G","A","T","E"," ","[","t","]"," ","<","U","I",
      ">",":","\r","\n">>

LineNoGateRfOnly ==
    <<"A",">","B",",","N","O","G","A","T","E",",","R","F","O","N","L","Y"," ",
      "[","t","]"," ","<","U","I",">",":","\r","\n">>

ScenarioARouting ==
    <<"A","A","6","I",">","A","P","O","T","U","0",",","K","6","I","X","A","-",
      "3",",","V","A","C","A",",","W","I","D","E","2","*"," ","[","0","6","/",
      "0","2","/","1","8"," ","1","3",":","4","7",":","5","4","]"," ","<","U",
      "I",">",":","\r","\n">>

LinePartial ==
    <<"A",">","B"," ","[","t","]"," ","<","U","I">>

LineBlank ==
    <<"\r","\n">>

LinePayload ==
    <<"/","p","\r","\n">>

LineBadByte ==
    <<"/","\\xff","p","\r","\n">>

LineThirdPartyTcp ==
    <<"}","X",",","T","C","P","I","P","*",":","y","\r","\n">>

LineThirdParty ==
    <<"}","X",":","y","\r","\n">>

LineTcpNotThirdParty ==
    <<"x","}",",","T","C","P",":","\r","\n">>

ScenarioAPayload ==
    <<"/","0","2","2","0","4","7","z","3","6","3","2",".","3","0","N","/","1",
      "1","9","3","5",".","1","6","W","k","1","3","6","/","0","5","5","/","A",
      "=","0","0","0","3","0","0","E","N","R","O","U","T","E","\r","\n">>

BannerPlain ==
    <<"#"," ","a","p","r","s","c","\r","\n">>

BannerVerified ==
    <<"#"," ","v","e","r","i","f","i","e","d","\r","\n">>

VerdictVerified ==
    <<"#"," ","l","o","g","r","e","s","p"," ","V","E","3","Y","S","H","-","9",
      " ","v","e","r","i","f","i","e","d",","," ","s","e","r","v","e","r"," ",
      "T","2","\r","\n">>

ScenarioCVerdict ==
    <<"#"," ","l","o","g","r","e","s","p"," ","V","E","3","Y","S","H","-","9",
      " ","u","n","v","e","r","i","f","i","e","d",","," ","s","e","r","v","e",
      "r"," ","T","2","\r","\n">>

VerdictInvalid ==
    <<"#"," ","i","n","v","a","l","i","d","\r","\n">>

\* an empty read: ser.readline() timed out, or the socket reached end of file
NoData == <<>>

\* what one ser.readline() can return
SerialReads ==
    { NoData, LinePlain, LineNoSpace, LineUiR, LineTcp, LineRfOnly, LineNoGate,
      LineNoGateRfOnly, ScenarioARouting, LinePartial, LineBlank, LinePayload,
      LineBadByte, LineThirdPartyTcp, LineThirdParty, LineTcpNotThirdParty,
      ScenarioAPayload }

\* the first line the server sends after the login line
Banners == { BannerPlain, BannerVerified }

\* the second line the server sends after the login line
Verdicts == { VerdictVerified, ScenarioCVerdict, VerdictInvalid, NoData }

\* how far the wall clock can have moved between two readings of time.time()
Delays == { 0, TELEMETRY_INTERVAL_S + 1, BEACON_INTERVAL_S + 1 }

\* sensor readings in tenths: cpu.temperature, load percentage, DHT22 t and h
CpuTemps == { 234 }

CpuLoads == { 120, 125 }

DhtTemps == { 234 }

DhtHumidities == { 470 }

(***************************************************************************)
(* Text operations of Python, on sequences of characters.                  *)
(***************************************************************************)
\* s[i:i+len(pat)] == pat, with i counted from 1
Occurs(pat, s, i) ==
    /\ i >= 1
    /\ i + Len(pat) - 1 <= Len(s)
    /\ \A k \in 1..Len(pat) : s[i + k - 1] = pat[k]

\* pat in s, and re.search(pat, s) for a pattern without metacharacters
Contains(pat, s) == \E i \in 1..(Len(s) + 1) : Occurs(pat, s, i)

\* '.*' can span s[a..b]: '.' matches every character but the newline
DotStar(s, a, b) == \A k \in a..b : s[k] # "\n"

\* bytes.decode('utf-8', errors='ignore'): bytes that are not UTF-8 vanish
IsValidByte(c) == c # "\\xff"

decode(raw) == SelectSeq(raw, IsValidByte)

\* the index of the first character of s that is not in chars, Len(s)+1 if none
RECURSIVE FirstNotIn(_, _, _)
FirstNotIn(s, chars, i) ==
    IF i > Len(s) \/ s[i] \notin chars THEN i ELSE FirstNotIn(s, chars, i + 1)

\* the index of the last character of s that is not in chars, 0 if none
RECURSIVE LastNotIn(_, _, _)
LastNotIn(s, chars, i) ==
    IF i < 1 \/ s[i] \notin chars THEN i ELSE LastNotIn(s, chars, i - 1)

\* str.strip(chars): leading and trailing characters of the set removed
strip(s, chars) == SubSeq(s, FirstNotIn(s, chars, 1), LastNotIn(s, chars, Len(s)))

\* line.strip('\n\r')
LineEnds == { "\n", "\r" }

\* str.strip() without argument removes white space
WhiteSpace == { " ", "\t", "\n", "\r" }

DigitChars == <<"0","1","2","3","4","5","6","7","8","9">>

\* str(n) for n >= 0
RECURSIVE DecimalDigits(_)
DecimalDigits(n) ==
    IF n < 10 THEN <<DigitChars[n + 1]>>
    ELSE DecimalDigits(n \div 10) \o <<DigitChars[(n % 10) + 1]>>

\* zero padding on the left up to width w
RECURSIVE ZeroPad(_, _)
ZeroPad(s, w) == IF Len(s) >= w THEN s ELSE ZeroPad(<<"0">> \o s, w)

\* f"{n:03d}": the sign counts in the width
Format03d(n) ==
    IF n >= 0 THEN ZeroPad(DecimalDigits(n), 3)
    ELSE <<"-">> \o ZeroPad(DecimalDigits(-n), 2)

\* str(n) for an integer n
IntStr(n) == IF n >= 0 THEN DecimalDigits(n) ELSE <<"-">> \o DecimalDigits(-n)

\* int(round(n / d)) for d > 0: Python rounds to nearest, ties to even
RoundDiv(n, d) ==
    LET q == n \div d
        r == n % d
    IN  IF 2 * r < d THEN q
        ELSE IF 2 * r > d THEN q + 1
        ELSE IF q % 2 = 0 THEN q ELSE q + 1

\* readDht22(): f"{int(round((t+50)*2)):03d}," + f"{int(round(h*2)):03d}",
\* t and h in tenths
readDht22(t, h) ==
    Format03d(RoundDiv((t + 500) * 2, 10)) \o <<",">> \o Format03d(RoundDiv(h * 2, 10))

\* getCPULoad(): f"{int(round(load,0))}", load in tenths of a percent
getCPULoad(load) == IntStr(RoundDiv(load, 10))

\* telem with the CPU temperature offset by 50 degrees like the sensor's
TelemCpuOffset(seq, cpuTemp, load, t, h) ==
    <<"T","#">> \o Format03d(seq) \o <<",">>
      \o Format03d(RoundDiv((cpuTemp + 500) * 2, 10)) \o <<",">>
      \o getCPULoad(load) \o <<",">> \o readDht22(t, h)

\* telem = "T#" + f"{SEQUENCE_NUMBER:03d}," + f"{int(round(cpu.temperature*2)):03d},"
\*         + getCPULoad() + "," + thStr
Telem(seq, cpuTemp, load, t, h) ==
    <<"T","#">> \o Format03d(seq) \o <<",">>
      \o Format03d(RoundDiv(cpuTemp * 2, 10)) \o <<",">>
      \o getCPULoad(load) \o <<",">> \o readDht22(t, h)

(***************************************************************************)
(* The two regular expressions of the main loop.                           *)
(***************************************************************************)
MarkerOpen == <<"[">>

SpaceMarkerOpen == <<" ","[">>

MarkerClose == <<"]"," ","<","U","I">>

MarkerEnd == <<">",":">>

\* '.*\] <UI.*>:' matches s[from..r+1]: q is where '] <UI' starts, r where '>:' starts
MarkerRest(s, from, q, r) ==
    /\ q >= from
    /\ Occurs(MarkerClose, s, q)
    /\ DotStar(s, from, q - 1)
    /\ r >= q + Len(MarkerClose)
    /\ Occurs(MarkerEnd, s, r)
    /\ DotStar(s, q + Len(MarkerClose), r - 1)

\* open followed by '.*\] <UI.*>:' matches at position p of s
MarkerAt(open, s, p) ==
    /\ Occurs(open, s, p)
    /\ \E q \in 1..Len(s) : \E r \in 1..Len(s) : MarkerRest(s, p + Len(open), q, r)

\* re.search('\[.*\] <UI.*>:', line)
IsRoutingLine(s) == \E p \in 1..Len(s) : MarkerAt(MarkerOpen, s, p)

Minimum(S) == CHOOSE x \in S : \A y \in S : x <= y

Maximum(S) == CHOOSE x \in S : \A y \in S : x >= y

\* the last index of the greedy match of open + '.*\] <UI.*>:' that starts at p:
\* the first '.*' takes the longest stretch that still lets the rest match,
\* then the second one does
MarkerLast(open, s, p) ==
    LET from == p + Len(open)
        q == Maximum({ x \in 1..Len(s) : \E r \in 1..Len(s) : MarkerRest(s, from, x, r) })
        r == Maximum({ y \in 1..Len(s) : MarkerRest(s, from, q, y) })
    IN  r + Len(MarkerEnd) - 1

\* re.sub(open + '.*\] <UI.*>:', repl, s) for the text of s from index from:
\* every non-overlapping match, leftmost first, is replaced
RECURSIVE SubFrom(_, _, _, _)
SubFrom(open, repl, s, from) ==
    LET starts == { p \in from..Len(s) : MarkerAt(open, s, p) }
    IN  IF starts = {} THEN SubSeq(s, from, Len(s))
        ELSE LET p == Minimum(starts)
             IN  SubSeq(s, from, p - 1) \o repl
                   \o SubFrom(open, repl, s, MarkerLast(open, s, p) + 1)

\* ',qAO,' + USER + ':'
QConstruct == <<",","q","A","O",",">> \o USER \o <<":">>

\* re.sub(' \[.*\] <UI.*>:', ',qAO,' + USER + ':', routing)
RewriteRouting(s) == SubFrom(SpaceMarkerOpen, QConstruct, s, 1)

TcpMark == <<",","T","C","P">>

RfOnlyMark == <<"R","F","O","N","L","Y">>

NoGateMark == <<"N","O","G","A","T","E">>

VerifiedMark == <<"v","e","r","i","f","i","e","d">>

\* re.search('^}.*,TCP.*:', payload)
IsThirdPartyInternet(s) ==
    /\ Len(s) >= 1
    /\ s[1] = "}"
    /\ \E j \in 2..Len(s) :
         /\ Occurs(TcpMark, s, j)
         /\ DotStar(s, 2, j - 1)
         /\ \E k \in (j + Len(TcpMark))..Len(s) :
              s[k] = ":" /\ DotStar(s, j + Len(TcpMark), k - 1)

\* DropDecision with the RFONLY test moved before the third-party test
DropDecisionRfOnlyEarly(rt, pl) ==
    IF Len(pl) = 0 THEN "EmptyPayload"
    ELSE IF Contains(TcpMark, rt) THEN "InternetSourced"
    ELSE IF Contains(RfOnlyMark, rt) THEN "RfOnlyFlag"
    ELSE IF IsThirdPartyInternet(pl) THEN "InternetSourcedEmbedded"
    ELSE IF Contains(NoGateMark, rt) THEN "NoGateFlag"
    ELSE "Accept"

\* DropDecision with the third-party test moved before the ',TCP' test
DropDecisionThirdPartyEarly(rt, pl) ==
    IF Len(pl) = 0 THEN "EmptyPayload"
    ELSE IF IsThirdPartyInternet(pl) THEN "InternetSourcedEmbedded"
    ELSE IF Contains(TcpMark, rt) THEN "InternetSourced"
    ELSE IF Contains(RfOnlyMark, rt) THEN "RfOnlyFlag"
    ELSE IF Contains(NoGateMark, rt) THEN "NoGateFlag"
    ELSE "Accept"

\* the chain of drop tests, lines 247-261; "Accept" when the packet passes all
DropDecision(rt, pl) ==
    IF Len(pl) = 0 THEN "EmptyPayload"
    ELSE IF Contains(TcpMark, rt) THEN "InternetSourced"
    ELSE IF IsThirdPartyInternet(pl) THEN "InternetSourcedEmbedded"
    ELSE IF Contains(RfOnlyMark, rt) THEN "RfOnlyFlag"
    ELSE IF Contains(NoGateMark, rt) THEN "NoGateFlag"
    ELSE "Accept"

\* AfterFilter when a drop test lacks its 'continue'
AfterFilterNoContinue(d) == "forward"

\* where the loop goes after the drop tests: 'continue' for a drop
AfterFilter(d) == IF d = "Accept" THEN "forward" ELSE "loop"

\* IsVerified when the verdict is compared word by word: "verified" after a blank
IsVerifiedWord(resp) == Contains(<<" ">> \o VerifiedMark, resp)

\* "verified" in login_response
IsVerified(resp) == Contains(VerifiedMark, resp)

(***************************************************************************)
(* State.                                                                  *)
(***************************************************************************)
VARIABLES
    run_state,            \* AprsIsState: "NOCONNECT", "CONNECTED", "LOGGED_IN"
    process,              \* "running", "exit0", "exit1" (os._exit), "crash" (uncaught exception)
    sock,                 \* the socket: "none", "unconnected", "connected", "broken", "closed"
    ser,                  \* the serial port: "open", "closed"
    pc,                   \* where the main loop stands
    current_time,         \* the last reading of time.time(), seconds since start
    last_beacon_time,
    last_telemetry_time,
    SEQUENCE_NUMBER,
    line,                 \* the line read at the top of the LOGGED_IN case
    routing,
    payload,
    packet,
    version,              \* first line of the login reply
    login_response,       \* second line of the login reply
    last_send,            \* the last call of send_to_server in this pass of the loop
    failed_sends,         \* the kinds of the sends that failed in this pass
    sends,                \* the kinds of all the sends of this pass, in order
    logged_in_pass,       \* "none", "first", "later": which LOGGED_IN pass was started last
    slept,                \* seconds spent in time.sleep in this pass
    resets,               \* calls of reset_socket in this pass
    decision,             \* outcome of the drop tests in this pass, "none" before
    readings,             \* the sensor values read by the step just taken, if any
    sigint                \* what the Ctrl-C handler did in this pass, "none" if not run

vars ==
    << run_state, process, sock, ser, pc, current_time, last_beacon_time,
       last_telemetry_time, SEQUENCE_NUMBER, line, routing, payload, packet,
       version, login_response, last_send, failed_sends, sends, logged_in_pass,
       slept, resets, decision,
       readings, sigint >>

\* the step just taken has read no sensor
NoReadings == [cpu |-> 0, load |-> 0, t |-> 0, h |-> 0, read |-> FALSE]

NoSend == [kind |-> "none", text |-> <<>>, ok |-> FALSE, state |-> "none"]

\* the sends that carry a packet; the login line is the only other send
PacketKinds ==
    { "telemetry", "position", "parm", "unit", "eqns", "radio", "opportunistic" }

\* Init with the timers set to the start time instead of backdated
InitNotBackdated ==
    /\ run_state = "NOCONNECT"
    /\ process = "running"
    /\ sock = "none"
    /\ ser = "open"
    /\ pc = "loop"
    /\ current_time = 0
    /\ last_beacon_time = 0
    /\ last_telemetry_time = 0
    /\ SEQUENCE_NUMBER = SEQUENCE_NUMBER_INIT
    /\ line = <<>>
    /\ routing = <<>>
    /\ payload = <<>>
    /\ packet = <<>>
    /\ version = <<>>
    /\ login_response = <<>>
    /\ last_send = NoSend
    /\ failed_sends = {}
    /\ sends = <<>>
    /\ logged_in_pass = "none"
    /\ slept = 0
    /\ resets = 0
    /\ decision = "none"
    /\ readings = NoReadings
    /\ sigint = "none"

\* time.time() at start is 0; both timers are backdated, lines 167-168
Init ==
    /\ run_state = "NOCONNECT"
    /\ process = "running"
    /\ sock = "none"
    /\ ser = "open"
    /\ pc = "loop"
    /\ current_time = 0
    /\ last_beacon_time = 0 - BEACON_INTERVAL_S
    /\ last_telemetry_time = (0 - BEACON_INTERVAL_S) - TELEMETRY_INTERVAL_S
    /\ SEQUENCE_NUMBER = SEQUENCE_NUMBER_INIT
    /\ line = <<>>
    /\ routing = <<>>
    /\ payload = <<>>
    /\ packet = <<>>
    /\ version = <<>>
    /\ login_response = <<>>
    /\ last_send = NoSend
    /\ failed_sends = {}
    /\ sends = <<>>
    /\ logged_in_pass = "none"
    /\ slept = 0
    /\ resets = 0
    /\ decision = "none"
    /\ readings = NoReadings
    /\ sigint = "none"

(***************************************************************************)
(* The socket helpers, lines 97-136.                                       *)
(***************************************************************************)
\* setup_socket: a new socket, not connected; the old one is dropped
setup_socket == "unconnected"

\* connect_to_server: True when sock.connect succeeds, the exception is swallowed
connect_to_server(s, ok) == s = "unconnected" /\ ok

\* send_to_server: True when sock.send succeeds; it can succeed only on a
\* connected socket, and every exception is turned into False
send_to_server(s, ok) == s = "connected" /\ ok

\* the socket after send_to_server: a failed send leaves a broken connection
SockAfterSend(s, ok) == IF s = "connected" /\ ~ok THEN "broken" ELSE s

\* reset_socket: sock.shutdown(0) then sock.close(), both inside one try.
\* shutdown raises on a socket that is not connected, and then close is
\* skipped; on a broken connection either can happen (shut says which)
reset_socket(s, shut) ==
    IF s = "connected" \/ (s = "broken" /\ shut) THEN "closed" ELSE s

\* the record of one call send_to_server(text)
SendRecord(kind, text, ok) ==
    [kind |-> kind, text |-> text, ok |-> send_to_server(sock, ok), state |-> run_state]

\* a new pass of the while loop: what was noted about the last pass is dropped.
\* line, routing, payload and packet are always assigned before they are read
\* in a pass, so their old values are dropped with it.
NewPass ==
    /\ routing' = <<>>
    /\ payload' = <<>>
    /\ packet' = <<>>
    /\ decision' = "none"
    /\ readings' = NoReadings
    /\ sigint' = "none"

\* time.time(): the clock has moved on by one of Delays
Clock(t) == { t + d : d \in { e \in Delays : t + e <= MaxTime } }

(***************************************************************************)
(* case AprsIsState.NOCONNECT, lines 174-180.                              *)
(***************************************************************************)
\* Connect that gives up after a failed attempt, as the serial port open does
ConnectGiveUp ==
    /\ process = "running"
    /\ pc = "loop"
    /\ run_state = "NOCONNECT"
    /\ \E ok \in BOOLEAN, shut \in BOOLEAN :
         LET connected == connect_to_server(setup_socket, ok)
         IN  /\ sock' = IF connected THEN "connected" ELSE reset_socket(setup_socket, shut)
             /\ run_state' = IF connected THEN "CONNECTED" ELSE "NOCONNECT"
             /\ process' = IF connected THEN "running" ELSE "exit1"
             /\ slept' = 0
             /\ resets' = IF connected THEN 0 ELSE 1
    /\ NewPass
    /\ line' = <<>>
    /\ last_send' = NoSend
    /\ failed_sends' = {}
    /\ sends' = <<>>
    /\ UNCHANGED << ser, pc, current_time, last_beacon_time,
                    last_telemetry_time, SEQUENCE_NUMBER, version, login_response >>
    /\ UNCHANGED logged_in_pass

Connect ==
    /\ process = "running"
    /\ pc = "loop"
    /\ run_state = "NOCONNECT"
    /\ \E ok \in BOOLEAN, shut \in BOOLEAN :
         LET connected == connect_to_server(setup_socket, ok)
         IN  /\ sock' = IF connected THEN "connected" ELSE reset_socket(setup_socket, shut)
             /\ run_state' = IF connected THEN "CONNECTED" ELSE "NOCONNECT"
             /\ slept' = IF connected THEN 0 ELSE SLEEP_S
             /\ resets' = IF connected THEN 0 ELSE 1
    /\ NewPass
    /\ line' = <<>>
    /\ last_send' = NoSend
    /\ failed_sends' = {}
    /\ sends' = <<>>
    /\ UNCHANGED << process, ser, pc, current_time, last_beacon_time,
                    last_telemetry_time, SEQUENCE_NUMBER, version, login_response >>
    /\ UNCHANGED logged_in_pass

(***************************************************************************)
(* case AprsIsState.CONNECTED, lines 182-196.                              *)
(***************************************************************************)
Authenticate ==
    /\ process = "running"
    /\ pc = "loop"
    /\ run_state = "CONNECTED"
    /\ \E ok \in BOOLEAN, rx \in {"lines", "error"}, banner \in Banners, verdict \in Verdicts :
         LET sent == send_to_server(sock, ok)
             resp == strip(verdict, WhiteSpace)
         IN  /\ last_send' = SendRecord("login", MY_LOGIN_STRING, ok)
             /\ failed_sends' = IF sent THEN {} ELSE {"login"}
             /\ sends' = <<"login">>
             /\ IF ~sent
                  THEN \* the result is False: nothing else is done in this pass
                       /\ sock' = SockAfterSend(sock, ok)
                       /\ UNCHANGED << run_state, process, ser, version, login_response >>
                  ELSE IF rx = "error"
                  THEN \* sock_file.readline() raises: nothing catches it
                       /\ process' = "crash"
                       /\ UNCHANGED << run_state, sock, ser, version, login_response >>
                  ELSE /\ version' = strip(banner, WhiteSpace)
                       /\ login_response' = resp
                       /\ IF IsVerified(resp)
                            THEN /\ run_state' = "LOGGED_IN"
                                 /\ UNCHANGED << process, sock, ser >>
                            ELSE /\ sock' = "closed"
                                 /\ ser' = "closed"
                                 /\ process' = "exit1"
                                 /\ UNCHANGED run_state
    /\ NewPass
    /\ line' = <<>>
    /\ slept' = 0
    /\ resets' = 0
    /\ UNCHANGED << pc, current_time, last_beacon_time, last_telemetry_time,
                    SEQUENCE_NUMBER >>
    /\ UNCHANGED logged_in_pass

(***************************************************************************)
(* case AprsIsState.LOGGED_IN, lines 198-281.                              *)
(***************************************************************************)
\* what a call send_to_server(text) leaves behind, whatever is done with its result
Sending(kind, text, ok) ==
    /\ last_send' = SendRecord(kind, text, ok)
    /\ failed_sends' = IF send_to_server(sock, ok) THEN failed_sends
                       ELSE failed_sends \cup {kind}
    /\ sends' = Append(sends, kind)

\* ResetSession that sets the state after a successful connect
ResetSessionToConnected(s, shut) ==
    /\ sock' = reset_socket(s, shut)
    /\ slept' = slept + SLEEP_S
    /\ resets' = resets + 1
    /\ run_state' = "CONNECTED"

\* reset_socket(); time.sleep(5); run_state = AprsIsState.NOCONNECT
ResetSession(s, shut) ==
    /\ sock' = reset_socket(s, shut)
    /\ slept' = slept + SLEEP_S
    /\ resets' = resets + 1
    /\ run_state' = "NOCONNECT"

\* lines 199-203: line = ser.readline(); current_time = time.time().  The
\* clock is past its value at start (0): connecting and logging in took time.
ReadLine ==
    /\ process = "running"
    /\ pc = "loop"
    /\ run_state = "LOGGED_IN"
    /\ \E raw \in SerialReads : line' = raw
    /\ \E t \in Clock(current_time) : t > 0 /\ current_time' = t
    /\ pc' = "telemetry"
    /\ logged_in_pass' = IF logged_in_pass = "none" THEN "first" ELSE "later"
    /\ NewPass
    /\ last_send' = NoSend
    /\ failed_sends' = {}
    /\ sends' = <<>>
    /\ slept' = 0
    /\ resets' = 0
    /\ UNCHANGED << run_state, process, sock, ser, last_beacon_time,
                    last_telemetry_time, SEQUENCE_NUMBER, version, login_response >>

\* NextSequence without the wrap
NextSequenceNoWrap(n) == n + 1

\* SEQUENCE_NUMBER = (SEQUENCE_NUMBER + 1) % 1000, line 212
NextSequence(n) == (n + 1) % 1000

\* lines 205-214: the telemetry report; the result of the send is not looked at
Telemetry ==
    /\ process = "running"
    /\ pc = "telemetry"
    /\ IF current_time - last_telemetry_time > TELEMETRY_INTERVAL_S
         THEN /\ \E ok \in BOOLEAN, c \in CpuTemps, l \in CpuLoads,
                    t \in DhtTemps, h \in DhtHumidities :
                   /\ Sending("telemetry",
                              PREFIX \o Telem(SEQUENCE_NUMBER, c, l, t, h) \o CRLF, ok)
                   /\ sock' = SockAfterSend(sock, ok)
                   /\ readings' = [cpu |-> c, load |-> l, t |-> t, h |-> h, read |-> TRUE]
              /\ SEQUENCE_NUMBER' = NextSequence(SEQUENCE_NUMBER)
              /\ last_telemetry_time' = current_time
         ELSE /\ readings' = NoReadings
              /\ UNCHANGED << last_send, failed_sends, sends, sock, SEQUENCE_NUMBER,
                              last_telemetry_time >>
    /\ pc' = "beacon"
    /\ UNCHANGED << sigint, run_state, process, ser, current_time, last_beacon_time, line,
                    routing, payload, packet, version, login_response, slept,
                    resets, decision >>
    /\ UNCHANGED logged_in_pass

\* Beacon that moves the timer on whether the send succeeded or not
BeaconStampsAlways ==
    /\ process = "running"
    /\ pc = "beacon"
    /\ IF current_time - last_beacon_time > BEACON_INTERVAL_S
         THEN \E ok \in BOOLEAN, shut \in BOOLEAN :
                /\ Sending("position", MY_POSITION_STRING \o CRLF, ok)
                /\ IF send_to_server(sock, ok)
                     THEN /\ last_beacon_time' = current_time
                          /\ pc' = "parm"
                          /\ UNCHANGED << sock, slept, resets, run_state >>
                     ELSE /\ ResetSession(SockAfterSend(sock, ok), shut)
                          /\ pc' = "line"
                          /\ last_beacon_time' = current_time
         ELSE /\ pc' = "line"
              /\ UNCHANGED << last_send, failed_sends, sends, sock, slept, resets,
                              run_state, last_beacon_time >>
    /\ readings' = NoReadings
    /\ UNCHANGED << sigint, process, ser, current_time, last_telemetry_time,
                    SEQUENCE_NUMBER, line, routing, payload, packet, version,
                    login_response, decision >>
    /\ UNCHANGED logged_in_pass

\* lines 216-223: the scheduled position beacon
Beacon ==
    /\ process = "running"
    /\ pc = "beacon"
    /\ IF current_time - last_beacon_time > BEACON_INTERVAL_S
         THEN \E ok \in BOOLEAN, shut \in BOOLEAN :
                /\ Sending("position", MY_POSITION_STRING \o CRLF, ok)
                /\ IF send_to_server(sock, ok)
                     THEN /\ last_beacon_time' = current_time
                          /\ pc' = "parm"
                          /\ UNCHANGED << sock, slept, resets, run_state >>
                     ELSE /\ ResetSession(SockAfterSend(sock, ok), shut)
                          /\ pc' = "line"
                          /\ UNCHANGED last_beacon_time
         ELSE /\ pc' = "line"
              /\ UNCHANGED << last_send, failed_sends, sends, sock, slept, resets,
                              run_state, last_beacon_time >>
    /\ readings' = NoReadings
    /\ UNCHANGED << sigint, process, ser, current_time, last_telemetry_time,
                    SEQUENCE_NUMBER, line, routing, payload, packet, version,
                    login_response, decision >>
    /\ UNCHANGED logged_in_pass

\* one of the three sends of lines 224-228: the result is not looked at
Metadata(at, kind, text, next) ==
    /\ process = "running"
    /\ pc = at
    /\ \E ok \in BOOLEAN :
         /\ Sending(kind, PREFIX \o text \o CRLF, ok)
         /\ sock' = SockAfterSend(sock, ok)
    /\ pc' = next
    /\ readings' = NoReadings
    /\ UNCHANGED << sigint, run_state, process, ser, current_time, last_beacon_time,
                    last_telemetry_time, SEQUENCE_NUMBER, line, routing, payload,
                    packet, version, login_response, slept, resets, decision >>
    /\ UNCHANGED logged_in_pass

\* line 224
SendParameterNames == Metadata("parm", "parm", PARAMETER_NAMES, "unit")

\* line 226
SendUnitMessage == Metadata("unit", "unit", UNIT_MESSAGE, "eqns")

\* line 228
SendEquationCoef == Metadata("eqns", "eqns", EQUATION_COEF, "line")

\* lines 233-240: nothing read, or a line that is no routing block, ends the
\* pass; a routing block is rewritten
CheckLine ==
    /\ process = "running"
    /\ pc = "line"
    /\ IF line = NoData
         THEN /\ pc' = "loop"
              /\ UNCHANGED << line, routing >>
         ELSE LET text == strip(decode(line), LineEnds)
              IN  /\ line' = text
                  /\ IF IsRoutingLine(text)
                       THEN /\ routing' = RewriteRouting(text)
                            /\ pc' = "payload"
                       ELSE /\ pc' = "loop"
                            /\ UNCHANGED routing
    /\ readings' = NoReadings
    /\ UNCHANGED << sigint, run_state, process, sock, ser, current_time, last_beacon_time,
                    last_telemetry_time, SEQUENCE_NUMBER, payload, packet, version,
                    login_response, last_send, failed_sends, sends, slept, resets, decision >>
    /\ UNCHANGED logged_in_pass

\* lines 241-261: the payload line and the drop tests
ReadPayload ==
    /\ process = "running"
    /\ pc = "payload"
    /\ \E raw \in SerialReads :
         LET text == strip(decode(raw), LineEnds)
         IN  /\ payload' = text
             /\ packet' = routing \o text
             /\ decision' = DropDecision(routing, text)
             /\ pc' = AfterFilter(DropDecision(routing, text))
    /\ readings' = NoReadings
    /\ UNCHANGED << sigint, run_state, process, sock, ser, current_time, last_beacon_time,
                    last_telemetry_time, SEQUENCE_NUMBER, line, routing, version,
                    login_response, last_send, failed_sends, sends, slept, resets >>
    /\ UNCHANGED logged_in_pass

\* lines 263-268: the packet goes to the server
Forward ==
    /\ process = "running"
    /\ pc = "forward"
    /\ \E ok \in BOOLEAN, shut \in BOOLEAN :
         /\ Sending("radio", packet \o CRLF, ok)
         /\ IF send_to_server(sock, ok)
              THEN UNCHANGED << sock, slept, resets, run_state >>
              ELSE ResetSession(SockAfterSend(sock, ok), shut)
    /\ pc' = "opportunistic"
    /\ readings' = NoReadings
    /\ UNCHANGED << sigint, process, ser, current_time, last_beacon_time,
                    last_telemetry_time, SEQUENCE_NUMBER, line, routing, payload,
                    packet, version, login_response, decision >>
    /\ UNCHANGED logged_in_pass

\* str(round(cpu.temperature, 1)) for a reading of c tenths, c >= 0
TemperatureStr(c) == IntStr(c \div 10) \o <<".">> \o <<DigitChars[(c % 10) + 1]>>

\* MY_SYSTEM_DATA_STRING = " CPUTemp:" + str(round(cpu.temperature, 1)) + "C"
SystemData(c) ==
    <<" ","C","P","U","T","e","m","p",":">> \o TemperatureStr(c) \o <<"C">>

\* lines 270-281: the clock is read again; the position beacon with the CPU
\* temperature goes out when it is due
Opportunistic ==
    /\ process = "running"
    /\ pc = "opportunistic"
    /\ \E now \in Clock(current_time) :
         /\ current_time' = now
         /\ IF now - last_beacon_time > BEACON_INTERVAL_S
              THEN \E ok \in BOOLEAN, shut \in BOOLEAN, c \in CpuTemps :
                     /\ Sending("opportunistic",
                                MY_POSITION_STRING \o SystemData(c) \o CRLF, ok)
                     /\ IF send_to_server(sock, ok)
                          THEN /\ last_beacon_time' = now
                               /\ UNCHANGED << sock, slept, resets, run_state >>
                          ELSE /\ ResetSession(SockAfterSend(sock, ok), shut)
                               /\ UNCHANGED last_beacon_time
              ELSE UNCHANGED << last_send, failed_sends, sends, sock, slept, resets,
                                run_state, last_beacon_time >>
    /\ pc' = "loop"
    /\ readings' = NoReadings
    /\ UNCHANGED << sigint, process, ser, last_telemetry_time, SEQUENCE_NUMBER, line,
                    routing, payload, packet, version, login_response, decision >>
    /\ UNCHANGED logged_in_pass

(***************************************************************************)
(* The Ctrl-C handler, lines 89-95 and 140.  Python runs it in the main    *)
(* thread at the point the signal arrives; what it raises is raised at     *)
(* that point of the main loop.                                            *)
(***************************************************************************)
\* signal_handler up to line 93: "exit" when sock.shutdown(0) and sock.close()
\* go through, "raised" when sock does not exist yet (NameError) or
\* sock.shutdown(0) raises (OSError) on a socket that is not connected
signal_handler(s, shut) ==
    IF s = "connected" \/ (s = "broken" /\ shut) THEN "exit" ELSE "raised"

\* what a process that has ended leaves behind: the notes of the pass go
Ended ==
    /\ routing' = <<>>
    /\ payload' = <<>>
    /\ packet' = <<>>
    /\ line' = <<>>
    /\ decision' = "none"
    /\ readings' = NoReadings
    /\ last_send' = NoSend
    /\ failed_sends' = {}
    /\ sends' = <<>>
    /\ slept' = 0
    /\ resets' = 0

\* Ctrl-C while the main loop is outside every try block (in ser.readline,
\* in time.sleep, between two statements).  Line 93, 'ser.close', names the
\* method without calling it: the serial port is not closed.  When the
\* handler raises, nothing catches the exception and the process ends with it.
Signal ==
    /\ process = "running"
    /\ \E shut \in BOOLEAN :
         LET done == signal_handler(sock, shut)
         IN  /\ sigint' = done
             /\ IF done = "exit"
                  THEN /\ sock' = "closed"
                       /\ process' = "exit0"
                  ELSE /\ process' = "crash"
                       /\ UNCHANGED sock
    /\ Ended
    /\ UNCHANGED << run_state, ser, pc, current_time, last_beacon_time,
                    last_telemetry_time, SEQUENCE_NUMBER, version, login_response >>
    /\ UNCHANGED logged_in_pass

\* Ctrl-C while connect_to_server is inside sock.connect (lines 117-124): the
\* new socket is not connected, sock.shutdown(0) raises in the handler, and
\* the 'except Exception' and the 'return' in 'finally' of connect_to_server
\* swallow it; the pass goes on as after a failed connect
SignalInConnect ==
    /\ process = "running"
    /\ pc = "loop"
    /\ run_state = "NOCONNECT"
    /\ \E shut \in BOOLEAN :
         /\ signal_handler(setup_socket, shut) = "raised"
         /\ sock' = reset_socket(setup_socket, shut)
    /\ sigint' = "swallowed"
    /\ slept' = SLEEP_S
    /\ resets' = 1
    /\ routing' = <<>>
    /\ payload' = <<>>
    /\ packet' = <<>>
    /\ line' = <<>>
    /\ decision' = "none"
    /\ readings' = NoReadings
    /\ last_send' = NoSend
    /\ failed_sends' = {}
    /\ sends' = <<>>
    /\ UNCHANGED << run_state, process, ser, pc, current_time, last_beacon_time,
                    last_telemetry_time, SEQUENCE_NUMBER, version, login_response >>
    /\ UNCHANGED logged_in_pass

\* Ctrl-C while send_to_server is inside sock.send of the login line (lines
\* 129-136) on a connection that is broken: sock.shutdown(0) raises in the
\* handler and send_to_server swallows it and returns False
SignalInSend ==
    /\ process = "running"
    /\ pc = "loop"
    /\ run_state = "CONNECTED"
    /\ \E shut \in BOOLEAN : signal_handler(sock, shut) = "raised"
    /\ sigint' = "swallowed"
    /\ last_send' = [kind |-> "login", text |-> MY_LOGIN_STRING, ok |-> FALSE,
                     state |-> run_state]
    /\ failed_sends' = {"login"}
    /\ sends' = <<"login">>
    /\ slept' = 0
    /\ resets' = 0
    /\ routing' = <<>>
    /\ payload' = <<>>
    /\ packet' = <<>>
    /\ line' = <<>>
    /\ decision' = "none"
    /\ readings' = NoReadings
    /\ UNCHANGED << run_state, process, sock, ser, pc, current_time,
                    last_beacon_time, last_telemetry_time, SEQUENCE_NUMBER,
                    version, login_response >>
    /\ UNCHANGED logged_in_pass

Next ==
    \/ Connect
    \/ Authenticate
    \/ ReadLine
    \/ Telemetry
    \/ Beacon
    \/ SendParameterNames
    \/ SendUnitMessage
    \/ SendEquationCoef
    \/ CheckLine
    \/ ReadPayload
    \/ Forward
    \/ Opportunistic
    \/ Signal
    \/ SignalInConnect
    \/ SignalInSend

Spec == Init /\ [][Next]_vars

(***************************************************************************)
(* Properties.                                                             *)
(***************************************************************************)
States == { "NOCONNECT", "CONNECTED", "LOGGED_IN" }

IsDrop(d) == d \notin { "none", "Accept" }

\* C1: whenever a radio packet, a position beacon, a telemetry report or a
\* metadata packet is handed to send, the session state is LOGGED_IN.
C1_SendOnlyWhenLoggedIn ==
    last_send.kind \in PacketKinds => last_send.state = "LOGGED_IN"

\* C2: once the login line is sent and the two reply lines are read, the
\* state becomes LOGGED_IN exactly when the second line contains "verified";
\* otherwise the socket and the serial port are closed and the process ends
\* with status 1, the state still CONNECTED, and nothing runs after that.
C2_LoginVerdict ==
    [][ /\ process = "running"
        /\ ( ( /\ pc = "loop"
               /\ run_state = "CONNECTED"
               /\ last_send'.ok
               /\ process' # "crash" )
             => /\ last_send'.kind = "login"
                /\ (run_state' = "LOGGED_IN") <=> Contains(VerifiedMark, login_response')
                /\ Contains(VerifiedMark, login_response') => process' = "running"
                /\ ~Contains(VerifiedMark, login_response')
                     => /\ process' = "exit1"
                        /\ sock' = "closed"
                        /\ ser' = "closed"
                        /\ run_state' = "CONNECTED" ) ]_vars

\* the process has ended on a verdict without "verified"
C2_Witness ==
    /\ process = "exit1"
    /\ last_send.kind = "login"
    /\ last_send.ok
    /\ login_response = strip(VerdictInvalid, WhiteSpace)
    /\ sock = "closed"
    /\ ser = "closed"

\* C3: when the login verdict is "# logresp VE3YSH-9 unverified, server ..."
\* the process has exited with status 1, the state is not LOGGED_IN and no
\* packet has been sent.
C3_ScenarioC ==
    login_response = strip(ScenarioCVerdict, WhiteSpace)
        => /\ process = "exit1"
           /\ run_state # "LOGGED_IN"
           /\ last_send.kind \notin PacketKinds

\* C4: at the end of a pass in which any send of a packet failed, the socket
\* is closed, five seconds have been slept and the state is NOCONNECT.
C4_AnySendFailureResets ==
    (pc = "loop" /\ failed_sends \cap PacketKinds # {})
        => /\ run_state = "NOCONNECT"
           /\ sock = "closed"
           /\ slept >= SLEEP_S

\* the routing line as the specification has it rewritten: the marker found by
\* '\[.*\] <UI.*>:', with the blank before it, gives way to ',qAO,<callsign>:'
MarkerReplaced(s) ==
    LET p == Minimum({ x \in 1..Len(s) : MarkerAt(MarkerOpen, s, x) })
        e == MarkerLast(MarkerOpen, s, p)
        lead == IF p > 1 /\ s[p - 1] = " " THEN p - 2 ELSE p - 1
    IN  SubSeq(s, 1, lead) \o QConstruct \o SubSeq(s, e + 1, Len(s))

\* C5: for a routing line and a non-empty payload such that the rewritten
\* routing has no ",TCP", "RFONLY" or "NOGATE" and the payload is no
\* third-party internet packet, the packet is the routing line with the marker
\* replaced by ",qAO,<callsign>:" followed by the payload, and that text plus
\* "\r\n" is what is handed to send.
C5_ForwardedPacket ==
    ( /\ decision # "none"
      /\ payload # <<>>
      /\ ~Contains(TcpMark, MarkerReplaced(line))
      /\ ~Contains(RfOnlyMark, MarkerReplaced(line))
      /\ ~Contains(NoGateMark, MarkerReplaced(line))
      /\ ~IsThirdPartyInternet(payload) )
        => /\ decision = "Accept"
           /\ packet = MarkerReplaced(line) \o payload
           /\ pc = "opportunistic"
                => /\ last_send.kind = "radio"
                   /\ last_send.text = MarkerReplaced(line) \o payload \o CRLF

\* C6: the drop tests are made in the order EmptyPayload, InternetSourced,
\* InternetSourcedEmbedded, RfOnlyFlag, NoGateFlag and the first one that
\* matches gives the decision.
C6_DropOrder ==
    decision # "none"
        => LET empty    == payload = <<>>
               tcp      == Contains(TcpMark, routing)
               embedded == IsThirdPartyInternet(payload)
               rfonly   == Contains(RfOnlyMark, routing)
               nogate   == Contains(NoGateMark, routing)
           IN  /\ (decision = "EmptyPayload") <=> empty
               /\ (decision = "InternetSourced") <=> (~empty /\ tcp)
               /\ (decision = "InternetSourcedEmbedded") <=> (~empty /\ ~tcp /\ embedded)
               /\ (decision = "RfOnlyFlag") <=> (~empty /\ ~tcp /\ ~embedded /\ rfonly)
               /\ (decision = "NoGateFlag")
                    <=> (~empty /\ ~tcp /\ ~embedded /\ ~rfonly /\ nogate)

\* a third-party internet payload on a routing line with RFONLY and NOGATE
C6_Witness ==
    /\ decision = "InternetSourcedEmbedded"
    /\ Contains(RfOnlyMark, routing)
    /\ Contains(NoGateMark, routing)
    /\ ~Contains(TcpMark, routing)

\* C7, as claimed: a routing with ",TCP" is dropped as InternetSourced for
\* every payload, the empty payload included.
C7_TcpAlwaysInternetSourced ==
    (decision # "none" /\ Contains(TcpMark, routing)) => decision = "InternetSourced"

\* C7, amended: a routing with ",TCP" is dropped as InternetSourced for every
\* payload that is not empty; with the empty payload it is EmptyPayload.
C7_TcpInternetSourcedUnlessEmpty ==
    (decision # "none" /\ Contains(TcpMark, routing))
        => IF payload = <<>> THEN decision = "EmptyPayload"
           ELSE decision = "InternetSourced"

\* ",TCP" in the routing and a payload that the next test would drop as well
C7_Witness ==
    /\ decision = "InternetSourced"
    /\ Contains(TcpMark, routing)
    /\ IsThirdPartyInternet(payload)

\* C8: a drop is decided only by the payload step, and that step ends the
\* pass, sends nothing and leaves the session state, the socket, both timers
\* and the telemetry sequence as they were; the process goes on.
C8_DropHasNoEffect ==
    [][ IsDrop(decision')
          => /\ pc = "payload"
             /\ pc' = "loop"
             /\ process' = "running"
             /\ UNCHANGED << run_state, sock, ser, last_beacon_time,
                             last_telemetry_time, SEQUENCE_NUMBER, current_time,
                             last_send, failed_sends, slept, resets >> ]_vars

\* Scenario B: the routing line of Scenario A and no payload
C8_Witness ==
    /\ decision = "EmptyPayload"
    /\ line = strip(ScenarioARouting, LineEnds)
    /\ payload = <<>>
    /\ pc = "loop"

\* C9: the state is one of the three, starts as NOCONNECT and changes only
\* from NOCONNECT to CONNECTED (connect succeeded), from CONNECTED to
\* LOGGED_IN (verified login) and from LOGGED_IN to NOCONNECT (a send failed).
C9_Transitions ==
    /\ run_state = "NOCONNECT"
    /\ [](run_state \in States)
    /\ [][ \/ run_state' = run_state
           \/ /\ run_state = "NOCONNECT"
              /\ run_state' = "CONNECTED"
              /\ sock' = "connected"
           \/ /\ run_state = "CONNECTED"
              /\ run_state' = "LOGGED_IN"
              /\ last_send'.kind = "login"
              /\ last_send'.ok
              /\ Contains(VerifiedMark, login_response')
           \/ /\ run_state = "LOGGED_IN"
              /\ run_state' = "NOCONNECT"
              /\ last_send'.kind \in PacketKinds
              /\ ~last_send'.ok ]_vars

\* the session has fallen back from LOGGED_IN to NOCONNECT on a failed send
C9_Witness ==
    /\ run_state = "NOCONNECT"
    /\ last_send.kind = "radio"
    /\ last_send.state = "LOGGED_IN"
    /\ ~last_send.ok
    /\ resets = 1

\* C10: a pass in NOCONNECT that no Ctrl-C interrupts either connects, and
\* the state is CONNECTED, or
\* fails, and then the state is still NOCONNECT, five seconds are slept, the
\* process keeps running and the next pass starts again with a connect.
C10_ConnectRetry ==
    [][ (pc = "loop" /\ run_state = "NOCONNECT" /\ sigint' = "none")
          => /\ process' = "running"
             /\ pc' = "loop"
             /\ \/ /\ run_state' = "CONNECTED"
                   /\ sock' = "connected"
                   /\ slept' = 0
                \/ /\ run_state' = "NOCONNECT"
                   /\ sock' # "connected"
                   /\ slept' = SLEEP_S ]_vars

\* a connect has just failed
C10_Witness ==
    /\ run_state = "NOCONNECT"
    /\ pc = "loop"
    /\ process = "running"
    /\ last_send = NoSend
    /\ slept = SLEEP_S
    /\ resets = 1
    /\ sock = "unconnected"

\* the places of a LOGGED_IN pass after the telemetry step and the beacon step
AfterBeaconStep == { "parm", "unit", "eqns", "line", "payload", "forward", "opportunistic" }

\* C11: in the first LOGGED_IN pass the first send is the telemetry report and
\* the second the position beacon, so both are handed to send before any
\* radio packet; before that pass no packet is sent at all.
C11_FirstPassTelemetryThenPosition ==
    process = "running"
        => /\ logged_in_pass = "none" => \A i \in 1..Len(sends) : sends[i] = "login"
           /\ (logged_in_pass = "first" /\ pc = "beacon") => sends = <<"telemetry">>
           /\ (logged_in_pass = "first" /\ pc \in AfterBeaconStep)
                => /\ Len(sends) >= 2
                   /\ sends[1] = "telemetry"
                   /\ sends[2] = "position"
                   /\ \A i \in 1..Len(sends) : sends[i] = "radio" => i > 2

\* the first pass has sent the report, the beacon, the metadata and a radio packet
C11_Witness ==
    /\ logged_in_pass = "first"
    /\ sends = <<"telemetry", "position", "parm", "unit", "eqns", "radio">>
    /\ last_beacon_time = current_time
    /\ last_telemetry_time = current_time

\* the position beacon is due
BeaconDue == current_time - last_beacon_time > BEACON_INTERVAL_S

\* C12: last_beacon_time moves only with a position beacon whose send
\* succeeded, and then to the clock reading; a scheduled beacon that is due is
\* handed to send; when that send fails the timer stays and the session is
\* reset; and a beacon that is due stays due until the timer moves, so the
\* first LOGGED_IN pass after the reconnect sends it again.
C12_BeaconTimerOnlyOnSuccess ==
    [][ process' = "running"
          => /\ last_beacon_time' # last_beacon_time
                  => /\ last_send'.kind \in { "position", "opportunistic" }
                     /\ last_send'.ok
                     /\ sends' = Append(sends, last_send'.kind)
                     /\ last_beacon_time' = current_time'
             /\ (pc = "beacon" /\ BeaconDue)
                  => /\ sends' = Append(sends, "position")
                     /\ last_send'.kind = "position"
             /\ (pc = "beacon" /\ BeaconDue /\ ~last_send'.ok)
                  => /\ last_beacon_time' = last_beacon_time
                     /\ run_state' = "NOCONNECT"
                     /\ resets' = resets + 1
             /\ (BeaconDue /\ last_beacon_time' = last_beacon_time) => BeaconDue' ]_vars

\* a later pass sends the beacon that failed in the first pass: the telemetry
\* timer was set in the first pass and the clock has not moved since
C12_Witness ==
    /\ logged_in_pass = "later"
    /\ pc = "parm"
    /\ sends = <<"position">>
    /\ last_send.kind = "position"
    /\ last_send.ok
    /\ last_beacon_time = current_time
    /\ last_telemetry_time = current_time
    /\ SEQUENCE_NUMBER = NextSequence(SEQUENCE_NUMBER_INIT)

(***************************************************************************)
(* The telemetry counter near its wrap.                                    *)
(***************************************************************************)
\* the modulus of line 212
Period == 1000

\* The program at the top of a NOCONNECT pass after 988 telemetry reports:
\* the counter of line 212 stands at 998, the session was lost and its socket
\* closed, and time is counted from this pass.
InitWrap ==
    /\ run_state = "NOCONNECT"
    /\ process = "running"
    /\ sock = "closed"
    /\ ser = "open"
    /\ pc = "loop"
    /\ current_time = 0
    /\ last_beacon_time = 0 - BEACON_INTERVAL_S
    /\ last_telemetry_time = (0 - BEACON_INTERVAL_S) - TELEMETRY_INTERVAL_S
    /\ SEQUENCE_NUMBER = 998
    /\ line = <<>>
    /\ routing = <<>>
    /\ payload = <<>>
    /\ packet = <<>>
    /\ version = <<>>
    /\ login_response = <<>>
    /\ last_send = NoSend
    /\ failed_sends = {}
    /\ sends = <<>>
    /\ logged_in_pass = "later"
    /\ slept = 0
    /\ resets = 0
    /\ decision = "none"
    /\ readings = NoReadings
    /\ sigint = "none"

SpecWrap == InitWrap /\ [][Next]_vars

\* the counter after k more telemetry reports, the reports taken in two halves
RECURSIVE Emissions(_, _)
Emissions(n, k) ==
    IF k = 0 THEN n
    ELSE IF k = 1 THEN NextSequence(n)
    ELSE LET h == k \div 2
             m == Emissions(n, h)
         IN  IF m \in Int THEN Emissions(m, k - h) ELSE n

\* the three digits a telemetry report carries after "T#"
SequenceField(text) == SubSeq(text, Len(PREFIX) + 3, Len(PREFIX) + 5)

\* C13: SEQUENCE_NUMBER is always in 0..999; every telemetry report carries the
\* counter as it stood and moves it to (n + 1) % 1000; no other step changes
\* it; and 1000 reports bring the counter back to where it was.
C13_SequenceWraps ==
    /\ [](SEQUENCE_NUMBER \in 0..(Period - 1))
    /\ [][ process' = "running"
             => /\ SEQUENCE_NUMBER' # SEQUENCE_NUMBER
                     => sends' = Append(sends, "telemetry")
                /\ sends' = Append(sends, "telemetry")
                     => /\ SEQUENCE_NUMBER' = (SEQUENCE_NUMBER + 1) % Period
                        /\ SEQUENCE_NUMBER' # SEQUENCE_NUMBER
                        /\ last_send'.kind = "telemetry"
                        /\ SequenceField(last_send'.text) = Format03d(SEQUENCE_NUMBER)
                        /\ Emissions(SEQUENCE_NUMBER, Period) = SEQUENCE_NUMBER
                        /\ Emissions(SEQUENCE_NUMBER, Period - 1) # SEQUENCE_NUMBER ]_vars

\* the report numbered 999 has gone out and the counter is back at 0
C13_Witness ==
    /\ pc = "beacon"
    /\ last_send.kind = "telemetry"
    /\ SequenceField(last_send.text) = <<"9","9","9">>
    /\ SEQUENCE_NUMBER = 0

\* the counter a report just sent was numbered with
SentSequence == (SEQUENCE_NUMBER + Period - 1) % Period

\* the five fields of a report body, the readings in tenths; offset is what is
\* added to the CPU temperature before doubling
ReportBody(seq, r, offset) ==
    <<"T","#">> \o Format03d(seq)
      \o <<",">> \o Format03d(RoundDiv((r.cpu + offset) * 2, 10))
      \o <<",">> \o IntStr(RoundDiv(r.load, 10))
      \o <<",">> \o Format03d(RoundDiv((r.t + 500) * 2, 10))
      \o <<",">> \o Format03d(RoundDiv(r.h * 2, 10))

ScenarioDReadings == [cpu |-> 234, load |-> 120, t |-> 234, h |-> 470, read |-> TRUE]

ScenarioDClaimed == <<"T","#","0","1","0",",","1","4","7",",","1","2",",","1","4","7",",","0","9","4">>

ScenarioDSent == <<"T","#","0","1","0",",","0","4","7",",","1","2",",","1","4","7",",","0","9","4">>

\* C14 as stated: the report body is T#seq,round((cpuTemp+50)*2),load,
\* round((sensorTemp+50)*2),round(humidity*2), and Scenario D gives
\* T#010,147,12,147,094.
C14_TelemetryBodyCpuOffset ==
    readings.read
        => /\ last_send.kind = "telemetry"
           /\ last_send.text = PREFIX \o ReportBody(SentSequence, readings, 500) \o CRLF
           /\ (readings = ScenarioDReadings /\ SentSequence = SEQUENCE_NUMBER_INIT)
                => last_send.text = PREFIX \o ScenarioDClaimed \o CRLF

\* C14 amended: the CPU temperature is doubled without the offset of 50, as
\* the coefficients 0,0.5,0 of EQUATION_COEF say; the sensor temperature has
\* the offset; Scenario D gives T#010,047,12,147,094.
C14_TelemetryBody ==
    readings.read
        => /\ last_send.kind = "telemetry"
           /\ last_send.text = PREFIX \o ReportBody(SentSequence, readings, 0) \o CRLF
           /\ (readings = ScenarioDReadings /\ SentSequence = SEQUENCE_NUMBER_INIT)
                => last_send.text = PREFIX \o ScenarioDSent \o CRLF

\* Scenario D: the report numbered 10 with 23.4 degC twice, 47 % and 12 %
C14_Witness ==
    /\ pc = "beacon"
    /\ readings = ScenarioDReadings
    /\ SEQUENCE_NUMBER = NextSequence(SEQUENCE_NUMBER_INIT)
    /\ last_send.kind = "telemetry"
    /\ last_send.text = PREFIX \o ScenarioDSent \o CRLF

\* C15: once Ctrl-C has been delivered, wherever the program was, the process
\* has ended and the serial port has been closed by the handler.
C15_SignalTerminates ==
    sigint # "none" => /\ process # "running"
                       /\ ser = "closed"

\* C16: every read of the serial port, the read of the line at the top of the
\* pass and the read of the payload line after a routing block, happens while
\* run_state is LOGGED_IN.
C16_SerialReadOnlyWhenLoggedIn ==
    [][ ( /\ process' = "running"
          /\ \/ (pc = "loop" /\ pc' = "telemetry")
             \/ (pc = "payload" /\ pc' # "payload") )
          => run_state = "LOGGED_IN" ]_vars

\* C17: when, in the CONNECTED pass, the send of the login line fails or the
\* reading of the reply fails, the process goes on running, the socket is
\* reset, the pass sleeps 5 seconds and the state becomes NOCONNECT.
C17_LoginTransportErrorRecovers ==
    [][ ( /\ process = "running"
          /\ pc = "loop"
          /\ run_state = "CONNECTED"
          /\ sigint' = "none"
          /\ sends' = <<"login">>
          /\ (~last_send'.ok \/ process' = "crash") )
          => /\ process' = "running"
             /\ run_state' = "NOCONNECT"
             /\ resets' >= 1
             /\ slept' = SLEEP_S ]_vars

\* C18: the position beacon with the CPU temperature is handed to send only
\* right after a radio packet whose send succeeded, and only when the position
\* interval has elapsed on the clock just read.
C18_OpportunisticAfterSuccess ==
    [][ sends' = Append(sends, "opportunistic")
          => /\ last_send.kind = "radio"
             /\ last_send.ok
             /\ current_time' - last_beacon_time > BEACON_INTERVAL_S ]_vars

\* C19: a line is taken as the payload only when it does not itself match the
\* routing marker, so no packet handed to send has such a payload.
C19_PayloadIsNoRoutingLine ==
    /\ decision # "none" => ~IsRoutingLine(payload)
    /\ last_send.kind = "radio" => ~IsRoutingLine(payload)

\* C20: whatever state the socket is in when reset_socket is called, never
\* connected, broken or already closed, the socket is closed afterwards, and a
\* second call leaves it as the first did.
C20_ResetCloses ==
    [][ resets' > resets
          => /\ sock' = "closed"
             /\ \A shut \in BOOLEAN : reset_socket(sock', shut) = sock' ]_vars

====
